---- MODULE Spec2Model ----
(***************************************************************************)
(* A model of the route-optimization service of syncnox-be:                *)
(* app/services/route_optimizer.py (class RouteOptimizer) together with    *)
(* the part of app/services/clients/graphhopper.py it calls.               *)
(*                                                                         *)
(* One RouteOptimizer object is shared by the calls (as the fixture of     *)
(* tests/test_route_optimizer.py does).  The calls are coroutines on one   *)
(* asyncio event loop: the code between two awaits runs atomically, and    *)
(* the only await that suspends is the matrix provider request inside      *)
(* _get_matrices.  Hence one action per run-to-suspension segment.         *)
(*                                                                         *)
(* Coordinates are integers in units of 1e-7 degree, so that rounding to   *)
(* six decimals (f"{lat:.6f}") is a real operation on them.  Strings are   *)
(* TLA+ strings: cache keys and exception messages are built by the same   *)
(* concatenations as in the source.                                        *)
(***************************************************************************)
EXTENDS Integers, Sequences, FiniteSets, TLC

VARIABLES
    matrix_cache,   \* self._matrix_cache: a dict, kept in insertion order
    cache_hits,     \* self._cache_hits
    cache_misses,   \* self._cache_misses
    pc,             \* per coroutine: "idle" or "awaiting" (suspended in the provider await)
    call,           \* per coroutine: the operation in flight and its arguments
    gh,             \* per coroutine: the requests it sent to self._gh_client.get_distance_matrix
    last,           \* the call that took the latest step: its arguments, the provider
                    \* requests it sent, the reply and the solver outcome it got, its result
    fetched,        \* the (locations, profile) requests whose response was stored in the cache
    started         \* number of calls started so far

vars == <<matrix_cache, cache_hits, cache_misses, pc, call, gh, last, fetched, started>>

(***************************************************************************)
(* Bounds of the model.                                                    *)
(***************************************************************************)
NumCalls == 2        \* coroutines that can be in flight together
MaxRequests == 2     \* calls started in one behaviour
MaxJobs == 2         \* longest job list of an optimize call
MaxVehicles == 1     \* longest vehicle list of an optimize call
MaxHorizonDays == 7  \* longest planning horizon, in days

Calls == 1..NumCalls

(***************************************************************************)
(* Program constants.                                                      *)
(***************************************************************************)
MAX_CACHE_ENTRIES == 1000    \* len(self._matrix_cache) > 1000
FractionDigits == 6          \* f"{lat:.6f}"
DEFAULT_SERVICE_SECONDS == 300   \* Job.__init__: duration: int = 300

(***************************************************************************)
(* Inputs.                                                                 *)
(***************************************************************************)
\* (lat, lon) pairs; P0 and P1 differ by 4e-7 degree, P2 is 1e-6 away from P0.
P0 == <<0, 0>>
P1 == <<4, 0>>
P2 == <<10, 0>>

DEFAULT_PROFILE == "car"
Profiles == {DEFAULT_PROFILE, "bike"}

RECURSIVE SeqsUpTo(_, _)
SeqsUpTo(S, n) ==
    IF n = 0 THEN {<< >>}
    ELSE LET shorter == SeqsUpTo(S, n - 1)
         IN shorter \cup {Append(s, x) : s \in {t \in shorter : Len(t) = n - 1}, x \in S}

\* Location lists of direct matrix requests: one point, the point 4e-7 degree
\* away, a distant point, and lists that differ in length or in order.
LocationLists == { <<P0>>, <<P1>>, <<P2>>, <<P0, P2>>, <<P2, P0>> }

Range(s) == {s[i] : i \in DOMAIN s}

(***************************************************************************)
(* str helpers.                                                            *)
(***************************************************************************)
Abs(x) == IF x < 0 THEN -x ELSE x

\* The nearest multiple of 1e-6, ties to even: what ".6f" does to a double.
\* m is in units of 1e-7 degree, the result in units of 1e-6 degree.
Round6(m) ==
    LET q == m \div 10
        r == m % 10
    IN IF r < 5 THEN q
       ELSE IF r > 5 THEN q + 1
       ELSE IF q % 2 = 0 THEN q ELSE q + 1

RECURSIVE ZeroPad(_, _)
ZeroPad(s, width) == IF Len(s) >= width THEN s ELSE ZeroPad("0" \o s, width)

\* f"{x:.6f}": sign, integer part, ".", six digits.  A negative x keeps its
\* sign even when it rounds to zero ("-0.000000").
Format6f(x) ==
    LET m == Round6(Abs(x))
    IN (IF x < 0 THEN "-" ELSE "")
       \o ToString(m \div 1000000) \o "."
       \o ZeroPad(ToString(m % 1000000), FractionDigits)

RECURSIVE Join(_, _)
Join(sep, parts) ==
    IF parts = << >> THEN ""
    ELSE IF Len(parts) = 1 THEN parts[1]
    ELSE parts[1] \o sep \o Join(sep, Tail(parts))

Contains(s, t) ==
    \E i \in 1..(Len(s) - Len(t) + 1) : SubSeq(s, i, i + Len(t) - 1) = t

(***************************************************************************)
(* RouteOptimizer._get_cache_key                                           *)
(***************************************************************************)
\* A key built from the first location alone.
FirstLocationKey(locations, profile) ==
    profile \o ":" \o Format6f(locations[1][1]) \o "," \o Format6f(locations[1][2])

_get_cache_key(locations, profile) ==
    LET loc_str == Join("|", [i \in DOMAIN locations |->
                        Format6f(locations[i][1]) \o "," \o Format6f(locations[i][2])])
    IN profile \o ":" \o loc_str

(***************************************************************************)
(* The dict self._matrix_cache: a sequence of (key, value) in insertion    *)
(* order.  Assigning to a key that is present keeps the key's position.    *)
(***************************************************************************)
CacheKeys(cache) == {cache[i].key : i \in DOMAIN cache}

CacheGet(cache, key) == cache[CHOOSE i \in DOMAIN cache : cache[i].key = key].value

\* An assignment that adds an entry even when the key is present.
CacheSetAppend(cache, key, value) == Append(cache, [key |-> key, value |-> value])

\* An assignment that moves an overwritten key to the end of the order.
CacheSetMoveToEnd(cache, key, value) ==
    IF key \in CacheKeys(cache)
    THEN LET p == CHOOSE i \in DOMAIN cache : cache[i].key = key
         IN [i \in DOMAIN cache |->
               IF i < p THEN cache[i]
               ELSE IF i < Len(cache) THEN cache[i + 1]
               ELSE [key |-> key, value |-> value]]
    ELSE Append(cache, [key |-> key, value |-> value])

CacheSet(cache, key, value) ==
    IF key \in CacheKeys(cache)
    THEN [i \in DOMAIN cache |->
            IF cache[i].key = key THEN [key |-> key, value |-> value] ELSE cache[i]]
    ELSE Append(cache, [key |-> key, value |-> value])

\* self._matrix_cache.pop(next(iter(self._matrix_cache)))
CachePopOldest(cache) == Tail(cache)

\* Lines 264-269: store, then enforce the size limit.
CacheStore(cache, key, value) ==
    LET stored == CacheSet(cache, key, value)
    IN IF Len(stored) > MAX_CACHE_ENTRIES THEN CachePopOldest(stored) ELSE stored

(***************************************************************************)
(* The matrix provider (self._gh_client).  A reply is a response dict or   *)
(* an exception.  GraphHopperClient.get_distance_matrix returns both       *)
(* requested arrays or raises GraphHopperClientError; the injected client  *)
(* of the tests also raises a plain Exception.                             *)
(***************************************************************************)
Matrix(n, w) == [i \in 1..n |-> [j \in 1..n |-> IF i = j THEN 0 ELSE w]]

\* Two answers the provider may give for the same request: w thousand metres
\* and w minutes between any two distinct locations.
Weights == {1, 2}

FullResponse(n, w) ==
    [k \in {"distances", "times"} |->
        IF k = "distances" THEN Matrix(n, 1000 * w) ELSE Matrix(n, 60 * w)]

Exc(type, msg) == [type |-> type, msg |-> msg]

ProviderErrors ==
    { Exc("GraphHopperClientError", "Failed to get distance matrix: timeout"),
      Exc("Exception", "API Error") }

Replies(n) ==
    {[ok |-> TRUE, response |-> FullResponse(n, w), error |-> Exc("", "")] : w \in Weights}
    \cup {[ok |-> FALSE, response |-> << >>, error |-> e] : e \in ProviderErrors}

\* response.get(k, [])
DictGet(d, k) == IF k \in DOMAIN d THEN d[k] ELSE << >>

\* str(e) or 'Unknown error'
StrOrUnknown(e) == IF e.msg = "" THEN "Unknown error" ELSE e.msg

(***************************************************************************)
(* RouteOptimizer._get_matrices, in its two run-to-suspension segments.    *)
(***************************************************************************)
\* A location the key loop can unpack: a (lat, lon) pair.
Unpackable(loc) == Len(loc) = 2

\* Lines 258-262: the pair built from the provider's response.
FormatMatrices(response) ==
    [distances |-> DictGet(response, "distances"), times |-> DictGet(response, "times")]

\* Lines 273-281: what _get_matrices raises for an exception e raised inside it.
MatricesError(e) ==
    IF e.type = "GraphHopperClientError"
    THEN Exc("RouteOptimizationError", "Failed to get distance matrix: " \o StrOrUnknown(e))
    ELSE Exc("RouteOptimizationError",
             "An unexpected error occurred while processing the distance matrix")

\* _get_matrices that never consults the cache.
MatricesBeginNoLookup(cache, locations, profile, force_refresh) ==
    IF \E i \in DOMAIN locations : ~Unpackable(locations[i])
    THEN [kind |-> "raise",
          error |-> MatricesError(Exc("TypeError", "cannot unpack non-iterable NoneType object"))]
    ELSE [kind |-> "await", key |-> _get_cache_key(locations, profile),
          request |-> [locations |-> locations, profile |-> profile,
                       out_arrays |-> <<"distances", "times">>]]

\* _get_matrices that reads the cache even when force_refresh is set.
MatricesBeginIgnoreForce(cache, locations, profile, force_refresh) ==
    IF \E i \in DOMAIN locations : ~Unpackable(locations[i])
    THEN [kind |-> "raise",
          error |-> MatricesError(Exc("TypeError", "cannot unpack non-iterable NoneType object"))]
    ELSE LET cache_key == _get_cache_key(locations, profile)
         IN IF cache_key \in CacheKeys(cache)
            THEN [kind |-> "hit", key |-> cache_key, value |-> CacheGet(cache, cache_key)]
            ELSE [kind |-> "await", key |-> cache_key,
                  request |-> [locations |-> locations, profile |-> profile,
                               out_arrays |-> <<"distances", "times">>]]

\* Lines 238-256: from entry to the return of a hit, the raise of a bad
\* argument, or the suspension in the provider request.
\*   kind "hit":   value is the stored pair
\*   kind "raise": error is the exception leaving _get_matrices
\*   kind "await": request is what was sent to the provider
MatricesBegin(cache, locations, profile, force_refresh) ==
    IF \E i \in DOMAIN locations : ~Unpackable(locations[i])
    THEN [kind |-> "raise",
          error |-> MatricesError(Exc("TypeError", "cannot unpack non-iterable NoneType object"))]
    ELSE LET cache_key == _get_cache_key(locations, profile)
         IN IF cache_key \in CacheKeys(cache) /\ ~force_refresh
            THEN [kind |-> "hit", key |-> cache_key, value |-> CacheGet(cache, cache_key)]
            ELSE [kind |-> "await", key |-> cache_key,
                  request |-> [locations |-> locations, profile |-> profile,
                               out_arrays |-> <<"distances", "times">>]]

\* _get_matrices that returns the fetched pair without storing it.
MatricesEndNoStore(cache, locations, profile, reply) ==
    IF reply.ok
    THEN [kind |-> "return", value |-> FormatMatrices(reply.response), cache |-> cache]
    ELSE [kind |-> "raise", error |-> MatricesError(reply.error), cache |-> cache]

\* Lines 258-281: _get_matrices resumed with the provider's reply.
MatricesEnd(cache, locations, profile, reply) ==
    IF reply.ok
    THEN LET matrices == FormatMatrices(reply.response)
         IN [kind |-> "return", value |-> matrices,
             cache |-> CacheStore(cache, _get_cache_key(locations, profile), matrices)]
    ELSE [kind |-> "raise", error |-> MatricesError(reply.error), cache |-> cache]

(***************************************************************************)
(* Jobs and vehicles of the service layer (classes Job and Vehicle).  A    *)
(* missing location (None) is the empty tuple.                             *)
(***************************************************************************)
NoLocation == << >>

\* Job.time_window is None or a (start, end) pair of datetimes (line 38); a
\* datetime is kept as its time of day.
NoWindow == << >>

Datetime(hour, minute, second) == [hour |-> hour, minute |-> minute, second |-> second]

Job(job_id, location, duration) ==
    [id |-> job_id, location |-> location, duration |-> duration, time_window |-> NoWindow]

\* Job(job_id, location, duration, time_window=(start, end))
TimedJob(job_id, location, duration, time_window) ==
    [Job(job_id, location, duration) EXCEPT !.time_window = time_window]

Vehicle(id, start_location) == [id |-> id, start_location |-> start_location]

JobPool ==
    << Job("j1", P0, DEFAULT_SERVICE_SECONDS), Job("j2", P2, 0),
       Job("j3", NoLocation, DEFAULT_SERVICE_SECONDS) >>

VehiclePool == << Vehicle("v1", P1), Vehicle("v2", NoLocation) >>

Distinct(s) == \A i, j \in DOMAIN s : i # j => s[i] # s[j]

\* The lists of at most n members of pool, in pool order.
SubLists(pool, n) ==
    {[i \in DOMAIN ix |-> pool[ix[i]]] :
        ix \in {s \in SeqsUpTo(DOMAIN pool, n) : \A i, j \in DOMAIN s : i < j => s[i] < s[j]}}

JobLists == SubLists(JobPool, MaxJobs)
VehicleLists == SubLists(VehiclePool, MaxVehicles)
OptimizationTypes == {"distance", "duration", "cost"}

(***************************************************************************)
(* RouteOptimizer._generate_vehicle_schedules (lines 283-330).  A date is  *)
(* its proleptic ordinal (date.toordinal(): day 1 is Monday 0001-01-01),   *)
(* so current_date += timedelta(days=1) adds one.  An object is the record *)
(* of its attributes; reading an attribute the object does not have raises *)
(* AttributeError.                                                         *)
(***************************************************************************)
\* date.weekday(): Monday is 0, Sunday is 6.
weekday(d) == (d + 6) % 7

NoHorizon == [none |-> TRUE]

PlanningHorizon(start_date, end_date, working_days, working_hours) ==
    [start_date |-> start_date, end_date |-> end_date,
     working_days |-> working_days, working_hours |-> working_hours]

\* app.schemas.optimization.VehicleRequest, the declared type of the vehicles
\* (fields max_driving_duration and max_distance, lines 194-203 of the schema).
VehicleRequest(id) ==
    [id |-> id, breaks |-> << >>, max_driving_duration |-> 28800, max_distance |-> 100000]

\* The service class Vehicle (lines 128-164): **kwargs are dropped, so it has
\* max_daily_driving_time and no max_daily_distance.
ServiceVehicle(id) ==
    [id |-> id, start_location |-> P1, breaks |-> << >>, max_daily_driving_time |-> 28800]

AttributeError(name) == Exc("AttributeError", "object has no attribute '" \o name \o "'")

\* time(9, 0) and time(17, 0)
Time(hour, minute) == [hour |-> hour, minute |-> minute]

\* The dates the while loop of lines 306-316 appends a schedule for, in the
\* order it appends them.
RECURSIVE WorkingDates(_, _)
WorkingDates(current_date, planning_horizon) ==
    IF current_date > planning_horizon.end_date THEN << >>
    ELSE IF weekday(current_date) \in planning_horizon.working_days
    THEN <<current_date>> \o WorkingDates(current_date + 1, planning_horizon)
    ELSE WorkingDates(current_date + 1, planning_horizon)

\* The schedules of one vehicle: the list, or the exception raised while the
\* first VehicleSchedule(...) call evaluates its arguments.
VehicleSchedules(vehicle, planning_horizon, today) ==
    LET plan == planning_horizon # NoHorizon
        dates == IF plan THEN WorkingDates(planning_horizon.start_date, planning_horizon)
                 ELSE <<today>>
    IN IF dates = << >> THEN [kind |-> "return", value |-> << >>]
       ELSE IF "max_daily_driving_time" \notin DOMAIN vehicle
       THEN [kind |-> "raise", error |-> AttributeError("max_daily_driving_time")]
       ELSE IF "max_daily_distance" \notin DOMAIN vehicle
       THEN [kind |-> "raise", error |-> AttributeError("max_daily_distance")]
       ELSE [kind |-> "return",
             value |-> [i \in DOMAIN dates |->
                          [date |-> dates[i],
                           start_time |-> IF plan THEN planning_horizon.working_hours[1]
                                          ELSE Time(9, 0),
                           end_time |-> IF plan THEN planning_horizon.working_hours[2]
                                        ELSE Time(17, 0),
                           breaks |-> vehicle.breaks,
                           max_driving_duration |-> vehicle.max_daily_driving_time,
                           max_distance |-> vehicle.max_daily_distance,
                           assigned_jobs |-> << >>]]]

\* The dict the method returns (vehicle id -> schedules), or the exception of
\* the first vehicle whose schedules raise.
GenerateSchedules(vehicles, planning_horizon, today) ==
    LET per == [i \in DOMAIN vehicles |-> VehicleSchedules(vehicles[i], planning_horizon, today)]
        bad == {i \in DOMAIN vehicles : per[i].kind = "raise"}
        LastOf(id) == CHOOSE i \in DOMAIN vehicles :
                        /\ vehicles[i].id = id
                        /\ \A j \in DOMAIN vehicles : vehicles[j].id = id => j <= i
    IN IF bad # {}
       THEN [kind |-> "raise", error |-> per[CHOOSE i \in bad : \A j \in bad : i <= j].error]
       ELSE [kind |-> "return",
             value |-> [id \in {vehicles[i].id : i \in DOMAIN vehicles} |-> per[LastOf(id)].value]]

\* Inputs: lists of vehicles of the two classes the program has, horizons of
\* up to MaxHorizonDays days starting on a Monday or a Wednesday, or none.
ScheduleVehicleLists ==
    { << >>, <<VehicleRequest("v1")>>, <<ServiceVehicle("v1")>>,
      <<VehicleRequest("v1"), VehicleRequest("v2")>> }

Horizons ==
    {PlanningHorizon(start_date, start_date + days - 1, working_days, <<32400, 61200>>) :
        start_date \in {8, 10}, days \in 1..MaxHorizonDays,
        working_days \in {{0, 1, 2, 3, 4}, {5, 6}, {}}}

Today == 13

(***************************************************************************)
(* The routing solver (OR-Tools), as RouteOptimizer.optimize_routes sets   *)
(* it up at lines 993-1048: n nodes, every vehicle starting and ending at  *)
(* node 0, no disjunctions, so a solution visits each of the nodes         *)
(* 1..n-1 once.  Which solution is found, or none, is the solver's choice. *)
(***************************************************************************)
NodeSeqs(n) == {s \in SeqsUpTo(1..(n - 1), n - 1) : Distinct(s)}

\* A solver that lets two vehicles visit the same node.
SolutionsWithRepeats(n, num_vehicles) ==
    {r \in [1..num_vehicles -> NodeSeqs(n)] :
        \A node \in 1..(n - 1) : \E v \in 1..num_vehicles : node \in Range(r[v])}

\* A solver that may leave nodes unvisited.
SolutionsWithDrops(n, num_vehicles) ==
    {r \in [1..num_vehicles -> NodeSeqs(n)] :
        \A v, w \in 1..num_vehicles : v # w => Range(r[v]) \cap Range(r[w]) = {}}

Solutions(n, num_vehicles) ==
    {r \in [1..num_vehicles -> NodeSeqs(n)] :
        /\ \A node \in 1..(n - 1) : \E v \in 1..num_vehicles : node \in Range(r[v])
        /\ \A v, w \in 1..num_vehicles : v # w => Range(r[v]) \cap Range(r[w]) = {}}

SolverOutcomes(n, num_vehicles) ==
    IF n = 0
    THEN {[kind |-> "error", msg |-> "depot 0 is not a node of the model"]}
    ELSE {[kind |-> "none"]}
         \cup {[kind |-> "solution", routes |-> r] : r \in Solutions(n, num_vehicles)}

(***************************************************************************)
(* RouteOptimizer._format_solution (lines 857-931).  route is the node     *)
(* sequence of one vehicle, from its start node to its end node.           *)
(***************************************************************************)
Entry(matrix, from_node, to_node) == matrix[from_node + 1][to_node + 1]

RECURSIVE PathSum(_, _, _)
\* The sum of the matrix entries of the first k edges of path.
PathSum(matrix, path, k) ==
    IF k = 0 THEN 0
    ELSE PathSum(matrix, path, k - 1) + Entry(matrix, path[k], path[k + 1])

Min(a, b) == IF a < b THEN a ELSE b

\* A formatter that takes node 0 for the only depot.
FormatStopsOneDepot(data, path, vehicles, jobs) ==
    LET num_depots == 1
        max_node == Len(data.distance_matrix) - 1
        \* loop iteration i handles node path[i]; prev_index is the node before it
        HasStop(i) == path[i] > 0 /\ path[i] - num_depots >= 0
                                  /\ path[i] - num_depots < Len(jobs)
        StopAt(i) ==
            LET job == jobs[path[i] - num_depots + 1]
                from_node == Min(path[IF i = 1 THEN 1 ELSE i - 1], max_node)
                to_node == Min(path[i], max_node)
                route_duration == PathSum(data.duration_matrix, path, i)
            IN [job_id |-> job.id, location |-> job.location,
                distance_from_prev |-> Entry(data.distance_matrix, from_node, to_node),
                duration_from_prev |-> Entry(data.duration_matrix, from_node, to_node),
                service_time |-> job.duration,
                arrival_time |-> route_duration,
                departure_time |-> route_duration + job.duration]
        at == {i \in 1..(Len(path) - 1) : HasStop(i)}
        RECURSIVE Collect(_)
        Collect(i) == IF i = 0 THEN << >>
                      ELSE IF i \in at THEN Append(Collect(i - 1), StopAt(i))
                      ELSE Collect(i - 1)
    IN Collect(Len(path) - 1)

FormatStops(data, path, vehicles, jobs) ==
    LET num_depots == Len(vehicles)
        max_node == Len(data.distance_matrix) - 1
        \* loop iteration i handles node path[i]; prev_index is the node before it
        HasStop(i) == path[i] > 0 /\ path[i] - num_depots >= 0
                                  /\ path[i] - num_depots < Len(jobs)
        StopAt(i) ==
            LET job == jobs[path[i] - num_depots + 1]
                from_node == Min(path[IF i = 1 THEN 1 ELSE i - 1], max_node)
                to_node == Min(path[i], max_node)
                route_duration == PathSum(data.duration_matrix, path, i)
            IN [job_id |-> job.id, location |-> job.location,
                distance_from_prev |-> Entry(data.distance_matrix, from_node, to_node),
                duration_from_prev |-> Entry(data.duration_matrix, from_node, to_node),
                service_time |-> job.duration,
                arrival_time |-> route_duration,
                departure_time |-> route_duration + job.duration]
        at == {i \in 1..(Len(path) - 1) : HasStop(i)}
        RECURSIVE Collect(_)
        Collect(i) == IF i = 0 THEN << >>
                      ELSE IF i \in at THEN Append(Collect(i - 1), StopAt(i))
                      ELSE Collect(i - 1)
    IN Collect(Len(path) - 1)

RECURSIVE SumOver(_, _)
SumOver(s, field) == IF s = << >> THEN 0 ELSE s[1][field] + SumOver(Tail(s), field)

\* A formatter whose grand totals are assigned, not accumulated, per route.
FormatSolutionLastRoute(data, solution, vehicles, jobs) ==
    LET PathOf(v) == <<data.depot>> \o solution[v] \o <<data.depot>>
        routes == [v \in 1..data.num_vehicles |->
                    [vehicle_id |-> vehicles[v].id,
                     stops |-> FormatStops(data, PathOf(v), vehicles, jobs),
                     total_distance |-> PathSum(data.distance_matrix, PathOf(v), Len(PathOf(v)) - 1),
                     total_duration |-> PathSum(data.duration_matrix, PathOf(v), Len(PathOf(v)) - 1)]]
    IN [status |-> "success",
        routes |-> routes,
        total_distance |-> routes[data.num_vehicles].total_distance,
        total_duration |-> routes[data.num_vehicles].total_duration,
        optimization_type |-> data.optimization_type]

_format_solution(data, solution, vehicles, jobs) ==
    LET PathOf(v) == <<data.depot>> \o solution[v] \o <<data.depot>>
        routes == [v \in 1..data.num_vehicles |->
                    [vehicle_id |-> vehicles[v].id,
                     stops |-> FormatStops(data, PathOf(v), vehicles, jobs),
                     total_distance |-> PathSum(data.distance_matrix, PathOf(v), Len(PathOf(v)) - 1),
                     total_duration |-> PathSum(data.duration_matrix, PathOf(v), Len(PathOf(v)) - 1)]]
    IN [status |-> "success",
        routes |-> routes,
        total_distance |-> SumOver(routes, "total_distance"),
        total_duration |-> SumOver(routes, "total_duration"),
        optimization_type |-> data.optimization_type]

(***************************************************************************)
(* RouteOptimizer.optimize_routes.  The class body defines the name twice  *)
(* (lines 332 and 933); the second definition rebinds it, so               *)
(* optimizer.optimize_routes(...) runs lines 933-1058.                     *)
(***************************************************************************)
OptimizationError(msg) == Exc("RouteOptimizationError", msg)

\* Lines 1056-1058: every exception raised inside the try block is re-raised.
Wrapped(e) == OptimizationError("Route optimization failed: " \o e.msg)

\* Lines 957-978: argument checks, the default vehicle, the location list.
OptimizePrepare(jobs, optimization_type, vehicles) ==
    IF optimization_type \notin {"distance", "duration"}
    THEN [kind |-> "raise",
          error |-> Exc("ValueError", "optimization_type must be either 'distance' or 'duration'")]
    ELSE IF jobs = << >>
    THEN [kind |-> "raise", error |-> OptimizationError("No jobs provided for optimization")]
    ELSE LET used == IF vehicles = << >>
                     THEN <<Vehicle("default_vehicle", jobs[1].location)>>
                     ELSE vehicles
         IN [kind |-> "go", vehicles |-> used,
             locations |-> [i \in 1..(Len(used) + Len(jobs)) |->
                              IF i <= Len(used) THEN used[i].start_location
                              ELSE jobs[i - Len(used)].location]]

\* Lines 807-808.
time_to_seconds(dt) == dt.hour * 3600 + dt.minute * 60 + dt.second

\* Lines 985-991 with _create_data_model (lines 799-832).
_create_data_model(vehicles, jobs, distance_matrix, duration_matrix, optimization_type) ==
    [distance_matrix |-> distance_matrix,
     duration_matrix |-> duration_matrix,
     num_vehicles |-> Len(vehicles),
     depot |-> 0,
     time_windows |-> [i \in DOMAIN jobs |->
                         IF jobs[i].time_window # NoWindow
                         THEN <<time_to_seconds(jobs[i].time_window[1]),
                                time_to_seconds(jobs[i].time_window[2])>>
                         ELSE <<0, 24 * 3600>>],
     service_times |-> [i \in DOMAIN jobs |-> jobs[i].duration],
     optimization_type |-> optimization_type]

\* Lines 1031-1037: the ranges set on the 'Time' cumul variables, by node.
\* location_idx enumerates data['time_windows'] from 0 (Python index); the
\* entries with location_idx < len(vehicles) are skipped and entry
\* location_idx bounds node location_idx.
TimeRanges(data) ==
    [location_idx \in {i \in 0..(Len(data.time_windows) - 1) : ~(i < data.num_vehicles)} |->
        data.time_windows[location_idx + 1]]

\* A routing model whose arc cost is the distance whatever the type.
RoutingModelDistanceOnly(data, optimization_type) ==
    [num_nodes |-> Len(data.distance_matrix),
     num_vehicles |-> data.num_vehicles,
     starts |-> [v \in 1..data.num_vehicles |-> data.depot],
     ends |-> [v \in 1..data.num_vehicles |-> data.depot],
     arc_cost |-> data.distance_matrix,
     time_transit |-> data.duration_matrix,
     time_ranges |-> TimeRanges(data)]

\* Lines 993-1030: the index manager and the routing model handed to the
\* solver.  Every vehicle starts and ends at data['depot']; the arc cost of
\* all vehicles is one of the two callbacks; the 'Time' dimension runs on
\* the duration callback.
RoutingModel(data, optimization_type) ==
    [num_nodes |-> Len(data.distance_matrix),
     num_vehicles |-> data.num_vehicles,
     starts |-> [v \in 1..data.num_vehicles |-> data.depot],
     ends |-> [v \in 1..data.num_vehicles |-> data.depot],
     arc_cost |-> IF optimization_type = "duration" THEN data.duration_matrix
                  ELSE data.distance_matrix,
     time_transit |-> data.duration_matrix,
     time_ranges |-> TimeRanges(data)]

\* optimize_routes called without further keyword arguments.
NoKwargs == [planning_horizon |-> NoHorizon]

\* Lines 984-1058: from the matrices to the end of the call.
OptimizeSolve(jobs, optimization_type, vehicles, matrices, solver) ==
    LET data == _create_data_model(vehicles, jobs, matrices.distances, matrices.times,
                                   optimization_type)
    IN CASE solver.kind = "error" -> [kind |-> "raise", error |-> Wrapped(Exc("Exception", solver.msg))]
         [] solver.kind = "none" ->
              [kind |-> "raise",
               error |-> Wrapped(OptimizationError("No solution found for the given constraints"))]
         [] solver.kind = "solution" ->
              [kind |-> "return",
               value |-> _format_solution(data, solver.routes, vehicles, jobs)]

(***************************************************************************)
(* State.                                                                  *)
(***************************************************************************)
NoResult == [kind |-> "none"]
NoCall == [op |-> "none"]
NoLast == [call |-> NoCall, gh |-> << >>, reply |-> << >>, solver |-> << >>, result |-> NoResult]

Outcome(r) == IF r.kind = "return" THEN [kind |-> "return", value |-> r.value]
              ELSE [kind |-> "raise", error |-> r.error]

TypeOK ==
    /\ cache_hits \in Nat /\ cache_misses \in Nat
    /\ started \in 0..MaxRequests
    /\ pc \in [Calls -> {"idle", "awaiting", "solving"}]
    /\ \A i \in DOMAIN matrix_cache : DOMAIN matrix_cache[i] = {"key", "value"}
    /\ \A c \in Calls : (pc[c] = "idle") <=> (call[c] = NoCall)
    /\ \A c \in Calls : Len(gh[c]) = IF pc[c] = "awaiting" THEN 1 ELSE 0
    /\ last.result.kind \in {"none", "return", "raise"}

Init ==
    /\ matrix_cache = << >>
    /\ cache_hits = 0
    /\ cache_misses = 0
    /\ pc = [c \in Calls |-> "idle"]
    /\ call = [c \in Calls |-> NoCall]
    /\ gh = [c \in Calls |-> << >>]
    /\ last = NoLast
    /\ fetched = {}
    /\ started = 0

\* The event loop runs one coroutine at a time.  A coroutine that is inside
\* routing.SolveWithParameters (called inline at line 1048, not awaited)
\* keeps the loop; no other coroutine starts or resumes until it is done.
LoopFree == \A d \in Calls : pc[d] # "solving"

\* A call starts on the first idle coroutine (the coroutines are anonymous).
CanStart(c) ==
    /\ LoopFree
    /\ pc[c] = "idle"
    /\ \A d \in Calls : d < c => pc[d] # "idle"
    /\ started < MaxRequests

\* The call runs to its end: it returns or raises.
Finish(c, args, requests, replies, solvers, r) ==
    /\ pc' = [pc EXCEPT ![c] = "idle"]
    /\ call' = [call EXCEPT ![c] = NoCall]
    /\ gh' = [gh EXCEPT ![c] = << >>]
    /\ last' = [call |-> args, gh |-> requests, reply |-> replies, solver |-> solvers,
                result |-> Outcome(r)]

\* The call suspends in `await self._gh_client.get_distance_matrix(...)`.
Suspend(c, args, request) ==
    /\ pc' = [pc EXCEPT ![c] = "awaiting"]
    /\ call' = [call EXCEPT ![c] = args]
    /\ gh' = [gh EXCEPT ![c] = <<request>>]
    /\ last' = [call |-> args, gh |-> <<request>>, reply |-> << >>, solver |-> << >>,
                result |-> NoResult]

\* The call has its matrices and enters the solver (lines 984-1048).
Solve(c, args, requests, replies, matrices) ==
    /\ pc' = [pc EXCEPT ![c] = "solving"]
    /\ call' = [call EXCEPT ![c] = args @@ [matrices |-> matrices]]
    /\ gh' = [gh EXCEPT ![c] = << >>]
    /\ last' = [call |-> args, gh |-> requests, reply |-> replies, solver |-> << >>,
                result |-> NoResult]

\* The requests whose response the cache took in.
Fetched(locations, profile, reply) ==
    IF reply.ok THEN fetched \cup {[locations |-> locations, profile |-> profile]} ELSE fetched

(***************************************************************************)
(* await optimizer._get_matrices(locations, profile, force_refresh), as    *)
(* tests/test_route_optimizer.py calls it, up to its first suspension.     *)
(***************************************************************************)
_get_matrices(c, locations, profile, force_refresh) ==
    LET b == MatricesBegin(matrix_cache, locations, profile, force_refresh)
        args == [op |-> "_get_matrices", locations |-> locations, profile |-> profile,
                 force_refresh |-> force_refresh]
    IN /\ CanStart(c)
       /\ started' = started + 1
       /\ CASE b.kind = "hit" ->
                 /\ cache_hits' = cache_hits + 1
                 /\ Finish(c, args, << >>, << >>, << >>, [kind |-> "return", value |-> b.value])
                 /\ UNCHANGED <<matrix_cache, cache_misses, fetched>>
            [] b.kind = "raise" ->
                 /\ Finish(c, args, << >>, << >>, << >>, b)
                 /\ UNCHANGED <<matrix_cache, cache_hits, cache_misses, fetched>>
            [] b.kind = "await" ->
                 /\ cache_misses' = cache_misses + 1
                 /\ Suspend(c, args, b.request)
                 /\ UNCHANGED <<matrix_cache, cache_hits, fetched>>

\* The provider answers; _get_matrices resumes and returns or raises.
_get_matrices_resume(c, reply) ==
    /\ LoopFree
    /\ pc[c] = "awaiting"
    /\ call[c].op = "_get_matrices"
    /\ LET e == MatricesEnd(matrix_cache, call[c].locations, call[c].profile, reply)
       IN /\ matrix_cache' = e.cache
          /\ Finish(c, call[c], gh[c], <<reply>>, << >>, e)
    /\ fetched' = Fetched(call[c].locations, call[c].profile, reply)
    /\ UNCHANGED <<cache_hits, cache_misses, started>>

(***************************************************************************)
(* await optimizer.optimize_routes(jobs, optimization_type, vehicles,      *)
(* profile, **kwargs), up to its first suspension.  kwargs collects the    *)
(* other keyword arguments (planning_horizon, as the tests pass it); the   *)
(* body never reads it.                                                    *)
(***************************************************************************)
optimize_routes(c, jobs, optimization_type, vehicles, profile, kwargs) ==
    LET p == OptimizePrepare(jobs, optimization_type, vehicles)
        args == [op |-> "optimize_routes", jobs |-> jobs, optimization_type |-> optimization_type,
                 vehicles |-> vehicles, profile |-> profile, kwargs |-> kwargs]
    IN /\ CanStart(c)
       /\ started' = started + 1
       /\ UNCHANGED fetched
       /\ IF p.kind = "raise"
          THEN /\ Finish(c, args, << >>, << >>, << >>, p)
               /\ UNCHANGED <<matrix_cache, cache_hits, cache_misses>>
          ELSE LET b == MatricesBegin(matrix_cache, p.locations, profile, FALSE)
               IN CASE b.kind = "hit" ->
                         /\ cache_hits' = cache_hits + 1
                         /\ Solve(c, args, << >>, << >>, b.value)
                         /\ UNCHANGED <<matrix_cache, cache_misses>>
                    [] b.kind = "raise" ->
                         /\ Finish(c, args, << >>, << >>, << >>,
                                   [kind |-> "raise", error |-> Wrapped(b.error)])
                         /\ UNCHANGED <<matrix_cache, cache_hits, cache_misses>>
                    [] b.kind = "await" ->
                         /\ cache_misses' = cache_misses + 1
                         /\ Suspend(c, args, b.request)
                         /\ UNCHANGED <<matrix_cache, cache_hits>>

\* The provider answers; _get_matrices resumes (lines 258-281) and
\* optimize_routes goes on, into the solver or out by the exception.
optimize_routes_resume(c, reply) ==
    /\ LoopFree
    /\ pc[c] = "awaiting"
    /\ call[c].op = "optimize_routes"
    /\ LET a == call[c]
           p == OptimizePrepare(a.jobs, a.optimization_type, a.vehicles)
           e == MatricesEnd(matrix_cache, p.locations, a.profile, reply)
       IN /\ matrix_cache' = e.cache
          /\ fetched' = Fetched(p.locations, a.profile, reply)
          /\ IF e.kind = "raise"
             THEN Finish(c, a, gh[c], <<reply>>, << >>,
                         [kind |-> "raise", error |-> Wrapped(e.error)])
             ELSE Solve(c, a, gh[c], <<reply>>, e.value)
    /\ UNCHANGED <<cache_hits, cache_misses, started>>

\* Lines 1048-1058: the solver call returns, in the same coroutine run as
\* the code before it; the call returns the formatted solution or raises.
optimize_routes_solve(c) ==
    /\ pc[c] = "solving"
    /\ LET a == [op |-> call[c].op, jobs |-> call[c].jobs,
                 optimization_type |-> call[c].optimization_type,
                 vehicles |-> call[c].vehicles, profile |-> call[c].profile,
                 kwargs |-> call[c].kwargs]
           p == OptimizePrepare(a.jobs, a.optimization_type, a.vehicles)
           data == _create_data_model(p.vehicles, a.jobs, call[c].matrices.distances,
                                      call[c].matrices.times, a.optimization_type)
           model == RoutingModel(data, a.optimization_type)
       IN \E solver \in SolverOutcomes(model.num_nodes, model.num_vehicles) :
             Finish(c, a, last.gh, last.reply, <<solver @@ [model |-> model]>>,
                    OptimizeSolve(a.jobs, a.optimization_type, p.vehicles,
                                  call[c].matrices, solver))
    /\ UNCHANGED <<matrix_cache, cache_hits, cache_misses, fetched, started>>

ProviderReplies(c) == Replies(Len(gh[c][1].locations))

MatrixRequest ==
    \E c \in Calls, locations \in LocationLists, profile \in Profiles, force_refresh \in BOOLEAN :
        _get_matrices(c, locations, profile, force_refresh)

MatrixReply ==
    \E c \in Calls :
        /\ pc[c] = "awaiting"
        /\ \E reply \in ProviderReplies(c) : _get_matrices_resume(c, reply)

OptimizeRequest ==
    \E c \in Calls, jobs \in JobLists, optimization_type \in OptimizationTypes,
       vehicles \in VehicleLists :
        optimize_routes(c, jobs, optimization_type, vehicles, DEFAULT_PROFILE, NoKwargs)

OptimizeReply ==
    \E c \in Calls :
        /\ pc[c] = "awaiting"
        /\ \E reply \in ProviderReplies(c) : optimize_routes_resume(c, reply)

OptimizeSolved == \E c \in Calls : optimize_routes_solve(c)

\* The matrix cache driven by direct requests alone.
NextCache == MatrixRequest \/ MatrixReply

SpecCache == Init /\ [][NextCache]_vars

\* The optimizer: optimize calls and direct matrix requests, interleaved.
Next == OptimizeRequest \/ OptimizeReply \/ OptimizeSolved \/ MatrixRequest \/ MatrixReply

Spec == Init /\ [][Next]_vars

(***************************************************************************)
(* Schedule requests.                                                      *)
(***************************************************************************)
\* optimizer._generate_vehicle_schedules(vehicles, planning_horizon): a plain
\* method, run to its end in one piece.
_generate_vehicle_schedules(vehicles, planning_horizon, today) ==
    /\ LoopFree
    /\ started < MaxRequests
    /\ started' = started + 1
    /\ last' = [call |-> [op |-> "_generate_vehicle_schedules", vehicles |-> vehicles,
                          planning_horizon |-> planning_horizon, today |-> today],
                gh |-> << >>, reply |-> << >>, solver |-> << >>,
                result |-> Outcome(GenerateSchedules(vehicles, planning_horizon, today))]
    /\ UNCHANGED <<matrix_cache, cache_hits, cache_misses, pc, call, gh, fetched>>

ScheduleRequest ==
    \E vehicles \in ScheduleVehicleLists, planning_horizon \in Horizons \cup {NoHorizon} :
        _generate_vehicle_schedules(vehicles, planning_horizon, Today)

SpecSchedules == Init /\ [][ScheduleRequest]_vars

(***************************************************************************)
(* Optimize calls that share one optimizer and one vehicle: calls for the  *)
(* same jobs ask for the same matrix, whatever their objective.            *)
(***************************************************************************)
SharedJobLists == { <<JobPool[1]>>, <<JobPool[1], JobPool[2]>> }

SharedRequest ==
    \E c \in Calls, jobs \in SharedJobLists, optimization_type \in {"distance", "duration"} :
        optimize_routes(c, jobs, optimization_type, <<VehiclePool[1]>>, DEFAULT_PROFILE, NoKwargs)

NextShared == SharedRequest \/ OptimizeReply \/ OptimizeSolved

SpecShared == Init /\ [][NextShared]_vars

\* The same calls with the progress the code's time limits give: the provider
\* request ends, by its response or by the client's timeout error (httpx
\* timeout, graphhopper.py line 58), and the solver returns within its time
\* limit (line 1044).
SpecSharedFair ==
    SpecShared /\ WF_vars(OptimizeReply) /\ WF_vars(OptimizeSolved)

(***************************************************************************)
(* Optimize calls for a fleet: one vehicle, or two vehicles that start at  *)
(* different locations, with or without a planning horizon (as             *)
(* tests/test_route_optimizer.py passes it: seven days, Monday to Friday). *)
(***************************************************************************)
FleetVehicleLists == { <<Vehicle("v1", P1)>>, <<Vehicle("v1", P1), Vehicle("v3", P2)>> }

HorizonWeek == PlanningHorizon(8, 14, {0, 1, 2, 3, 4}, <<32400, 61200>>)

FleetJobLists == { <<JobPool[1]>> }

FleetRequest ==
    \E c \in Calls, jobs \in FleetJobLists, optimization_type \in {"distance", "duration"},
       vehicles \in FleetVehicleLists,
       kwargs \in {NoKwargs, [planning_horizon |-> HorizonWeek]} :
        optimize_routes(c, jobs, optimization_type, vehicles, DEFAULT_PROFILE, kwargs)

NextFleet == FleetRequest \/ OptimizeReply \/ OptimizeSolved

SpecFleet == Init /\ [][NextFleet]_vars

(***************************************************************************)
(* GraphHopperClient (clients/graphhopper.py), the provider the optimizer  *)
(* is built with, between the HTTP exchange and _get_matrices.             *)
(***************************************************************************)
ClientError(msg) == Exc("GraphHopperClientError", msg)

\* What the HTTP exchange ends in: a 200 response with a JSON body (complete
\* or lacking an array), an error status, or no response in time.
HttpOutcomes(n) ==
    {[kind |-> "json", body |-> FullResponse(n, w)] : w \in Weights}
    \cup {[kind |-> "json", body |-> [k \in {have} |-> FullResponse(n, 1)[k]]] :
             have \in {"distances", "times"}}
    \cup {[kind |-> "status", text |-> "500"], [kind |-> "exception", text |-> "timeout"]}

\* _make_request (lines 37-69): the JSON body, or GraphHopperClientError.
_make_request(http) ==
    CASE http.kind = "json" -> [ok |-> TRUE, response |-> http.body, error |-> Exc("", "")]
      [] http.kind = "status" ->
           [ok |-> FALSE, response |-> << >>,
            error |-> ClientError("GraphHopper API error (" \o http.text \o ")")]
      [] http.kind = "exception" ->
           [ok |-> FALSE, response |-> << >>,
            error |-> ClientError("Error making request to GraphHopper API: " \o http.text)]

\* A client that hands the body on without looking at it.
GetDistanceMatrixUnchecked(http, out_arrays) ==
    LET r == _make_request(http)
    IN IF ~r.ok
       THEN [r EXCEPT !.error = ClientError("Failed to get distance matrix: " \o r.error.msg)]
       ELSE r

\* get_distance_matrix (lines 104-119), from the HTTP outcome on: the
\* requested arrays, or GraphHopperClientError when the request failed or
\* the body lacks one of them.
get_distance_matrix(http, out_arrays) ==
    LET r == _make_request(http)
    IN IF ~r.ok
       THEN [r EXCEPT !.error = ClientError("Failed to get distance matrix: " \o r.error.msg)]
       ELSE IF \E i \in DOMAIN out_arrays : out_arrays[i] \notin DOMAIN r.response
       THEN [ok |-> FALSE, response |-> << >>,
             error |-> ClientError("Failed to get distance matrix: "
                                    \o "Unexpected response format from GraphHopper Matrix API")]
       ELSE [ok |-> TRUE, error |-> Exc("", ""),
             response |-> [k \in Range(out_arrays) |-> r.response[k]]]

(***************************************************************************)
(* RouteOptimizer._prepare_optimization_data (lines 484-548): the symbol   *)
(* table location_to_idx (key -> node index), the location list, and       *)
(* job_indices (job id -> node index); then the matrices of the list.      *)
(***************************************************************************)
\* A VehicleRequest with its locations; end_location is None or a location.
RequestVehicle(id, start_location, end_location) ==
    [id |-> id, start_location |-> start_location, end_location |-> end_location]

\* Lines 513-515, 520-522, 528-530: `if loc_key not in location_to_idx:` adds
\* the key with the next index and appends the location.
AddLocation(t, loc_key, location) ==
    IF loc_key \in DOMAIN t.location_to_idx THEN t
    ELSE [t EXCEPT !.location_to_idx = (loc_key :> Len(t.locations)) @@ t.location_to_idx,
                   !.locations = Append(t.locations, location)]

\* Lines 510-522: one vehicle of the loop.
AddVehicle(t, vehicle) ==
    LET t1 == AddLocation(t, vehicle.id \o "_start", vehicle.start_location)
    IN IF vehicle.end_location # NoLocation /\ vehicle.end_location # vehicle.start_location
       THEN AddLocation(t1, vehicle.id \o "_end", vehicle.end_location)
       ELSE t1

\* Lines 526-531: one job of the loop.
AddJob(t, job) ==
    LET loc_key == "job_" \o job.id
        t1 == AddLocation(t, loc_key, job.location)
    IN [t1 EXCEPT !.job_indices =
            [id \in DOMAIN t.job_indices \cup {job.id} |->
                IF id = job.id THEN t1.location_to_idx[loc_key] ELSE t.job_indices[id]]]

RECURSIVE AddVehicles(_, _)
\* Lines 510-522: the loop over the vehicles.
AddVehicles(t, vehicles) ==
    IF vehicles = << >> THEN t ELSE AddVehicles(AddVehicle(t, Head(vehicles)), Tail(vehicles))

RECURSIVE AddJobs(_, _)
\* Lines 525-531: the loop over the jobs.
AddJobs(t, jobs) ==
    IF jobs = << >> THEN t ELSE AddJobs(AddJob(t, Head(jobs)), Tail(jobs))

\* Lines 505-531.
SymbolTable(vehicles, jobs) ==
    AddJobs(AddVehicles([locations |-> << >>, location_to_idx |-> << >>,
                         job_indices |-> << >>],
                        vehicles),
            jobs)

\* Lines 537-548: the dict the method returns.
OptimizationData(a, t, matrices) ==
    [vehicles |-> a.vehicles, jobs |-> a.jobs, optimization_type |-> a.optimization_type,
     locations |-> t.locations, location_to_idx |-> t.location_to_idx,
     job_indices |-> t.job_indices,
     distance_matrix |-> matrices.distances, duration_matrix |-> matrices.times]

\* await optimizer._prepare_optimization_data(vehicles, jobs, vehicle_schedules,
\* optimization_type, options) with options = {} (profile 'car'), up to its
\* suspension inside _get_matrices.  The method has no handler of its own:
\* what _get_matrices raises leaves it.
_prepare_optimization_data(c, vehicles, jobs, optimization_type) ==
    LET t == SymbolTable(vehicles, jobs)
        args == [op |-> "_prepare_optimization_data", vehicles |-> vehicles, jobs |-> jobs,
                 optimization_type |-> optimization_type]
        b == MatricesBegin(matrix_cache, t.locations, DEFAULT_PROFILE, FALSE)
    IN /\ CanStart(c)
       /\ started' = started + 1
       /\ CASE b.kind = "hit" ->
                 /\ cache_hits' = cache_hits + 1
                 /\ Finish(c, args, << >>, << >>, << >>,
                           [kind |-> "return", value |-> OptimizationData(args, t, b.value)])
                 /\ UNCHANGED <<matrix_cache, cache_misses, fetched>>
            [] b.kind = "raise" ->
                 /\ Finish(c, args, << >>, << >>, << >>, b)
                 /\ UNCHANGED <<matrix_cache, cache_hits, cache_misses, fetched>>
            [] b.kind = "await" ->
                 /\ cache_misses' = cache_misses + 1
                 /\ Suspend(c, args, b.request)
                 /\ UNCHANGED <<matrix_cache, cache_hits, fetched>>

\* The provider answers; _get_matrices resumes and the method returns its
\* dict or lets the exception through.
_prepare_optimization_data_resume(c, reply) ==
    /\ LoopFree
    /\ pc[c] = "awaiting"
    /\ call[c].op = "_prepare_optimization_data"
    /\ LET t == SymbolTable(call[c].vehicles, call[c].jobs)
           e == MatricesEnd(matrix_cache, t.locations, DEFAULT_PROFILE, reply)
       IN /\ matrix_cache' = e.cache
          /\ fetched' = Fetched(t.locations, DEFAULT_PROFILE, reply)
          /\ Finish(c, call[c], gh[c], <<reply>>, << >>,
                    IF e.kind = "raise" THEN e
                    ELSE [kind |-> "return", value |-> OptimizationData(call[c], t, e.value)])
    /\ UNCHANGED <<cache_hits, cache_misses, started>>

\* Vehicles and jobs with unique ids; "job_a" with "a_start" is the pair of
\* ids whose keys meet.
PrepareVehicleLists ==
    { <<RequestVehicle("v1", P1, NoLocation)>>,
      <<RequestVehicle("job_a", P1, P2)>>,
      <<RequestVehicle("v1", P1, P1), RequestVehicle("v2", P2, P0)>> }

PrepareJobLists ==
    { <<Job("j1", P0, DEFAULT_SERVICE_SECONDS)>>,
      <<Job("a_start", P0, DEFAULT_SERVICE_SECONDS)>>,
      <<Job("j1", P0, DEFAULT_SERVICE_SECONDS), Job("a_start", P2, 0)>> }

PrepareRequest ==
    \E c \in Calls, vehicles \in PrepareVehicleLists, jobs \in PrepareJobLists :
        _prepare_optimization_data(c, vehicles, jobs, "distance")

PrepareReply ==
    \E c \in Calls :
        /\ pc[c] = "awaiting"
        /\ \E reply \in ProviderReplies(c) : _prepare_optimization_data_resume(c, reply)

NextPrepare == PrepareRequest \/ PrepareReply

SpecPrepare == Init /\ [][NextPrepare]_vars

(***************************************************************************)
(* Matrix requests around the zero meridian: PWest is 4e-7 degree west of  *)
(* P0, less than half of the sixth decimal place.                          *)
(***************************************************************************)
PWest == <<0, -4>>

KeyLocationLists == { <<P0>>, <<PWest>>, <<P0, P2>>, <<P2, P0>> }

KeyRequest ==
    \E c \in Calls, locations \in KeyLocationLists, profile \in Profiles :
        _get_matrices(c, locations, profile, FALSE)

NextKeys == KeyRequest \/ MatrixReply

SpecKeys == Init /\ [][NextKeys]_vars

(***************************************************************************)
(* Optimize calls made one after the other, each awaited before the next  *)
(* starts, for one vehicle or two and for jobs with and without time       *)
(* windows; job j5 is at the second vehicle's start location.              *)
(***************************************************************************)
RouteJobLists ==
    { <<JobPool[1]>>,
      <<TimedJob("j4", P0, DEFAULT_SERVICE_SECONDS, <<Datetime(9, 0, 0), Datetime(12, 0, 0)>>),
        TimedJob("j5", P2, 0, <<Datetime(13, 30, 0), Datetime(17, 0, 0)>>)>> }

RouteRequest ==
    \E c \in Calls, jobs \in RouteJobLists, optimization_type \in {"distance", "duration"},
       vehicles \in FleetVehicleLists :
        /\ \A d \in Calls : pc[d] = "idle"
        /\ optimize_routes(c, jobs, optimization_type, vehicles, DEFAULT_PROFILE, NoKwargs)

NextRoutes == RouteRequest \/ OptimizeReply \/ OptimizeSolved

SpecRoutes == Init /\ [][NextRoutes]_vars

(***************************************************************************)
(* The optimizer after n distinct requests have been fetched and stored,   *)
(* the first of them for <<P0, P2>>, the others for single locations: a    *)
(* cache that is full, or one entry short of full.                         *)
(***************************************************************************)
PrefillLocations(i) == IF i = 1 THEN <<P0, P2>> ELSE << <<10 * i, 0>> >>

PrefilledCache(n) ==
    [i \in 1..n |-> [key |-> _get_cache_key(PrefillLocations(i), DEFAULT_PROFILE),
                     value |-> FormatMatrices(FullResponse(Len(PrefillLocations(i)), 1))]]

InitFull ==
    \E n \in {MAX_CACHE_ENTRIES - 1, MAX_CACHE_ENTRIES} :
        /\ matrix_cache = PrefilledCache(n)
        /\ cache_hits = 0
        /\ cache_misses = n
        /\ pc = [c \in Calls |-> "idle"]
        /\ call = [c \in Calls |-> NoCall]
        /\ gh = [c \in Calls |-> << >>]
        /\ last = NoLast
        /\ fetched = {[locations |-> PrefillLocations(i), profile |-> DEFAULT_PROFILE] : i \in 1..n}
        /\ started = 0

\* Requests against the full cache: the earliest entry's key, and a new key.
FullCacheLists == { <<P0, P2>>, <<P2>> }

FullCacheRequest ==
    \E c \in Calls, locations \in FullCacheLists, force_refresh \in BOOLEAN :
        _get_matrices(c, locations, DEFAULT_PROFILE, force_refresh)

NextFull == FullCacheRequest \/ MatrixReply

SpecFull == InitFull /\ [][NextFull]_vars

\* The same requests on an empty cache, with the client in between.
\* The HTTP exchange of a suspended _get_matrices call ends; the client and
\* then _get_matrices run on.
HttpReply ==
    \E c \in Calls :
        /\ pc[c] = "awaiting"
        /\ \E http \in HttpOutcomes(Len(gh[c][1].locations)) :
              _get_matrices_resume(c, get_distance_matrix(http, gh[c][1].out_arrays))

NextFetch == FullCacheRequest \/ HttpReply

SpecFetch == Init /\ [][NextFetch]_vars

(***************************************************************************)
(* Properties.  `last` describes the call that took the latest step: its   *)
(* arguments, the provider requests it made, the provider's reply, the     *)
(* solver's outcome and how the call ended.                                *)
(***************************************************************************)
Optimize == last.call.op = "optimize_routes"
Ended == last.result.kind # "none"
Returned == last.result.kind = "return"
Raised == last.result.kind = "raise"

ValidType(a) == a.optimization_type \in {"distance", "duration"}
HasStart(v) == v.start_location # NoLocation
HasLocation(j) == j.location # NoLocation

\* Pre-validation as the specification states it: at least one vehicle, every
\* vehicle with a start location, every job with a location.
PreValid(a) ==
    /\ a.vehicles # << >>
    /\ \A i \in DOMAIN a.vehicles : HasStart(a.vehicles[i])
    /\ \A i \in DOMAIN a.jobs : HasLocation(a.jobs[i])

\* C1: the status an optimize call hands back to its caller is always
\* COMPLETED or FAILED (the end of PENDING -> IN_PROGRESS -> {COMPLETED,
\* FAILED}).
C1_ReturnedStatusIsTerminal ==
    (Optimize /\ Returned) => last.result.value.status \in {"completed", "failed"}

\* C2: when the solver finds no solution the optimize
\* call returns a result whose status is FAILED and whose error list is not
\* empty; it does not raise.
C2_SolverFailureReturnsFailed ==
    (Optimize /\ last.solver # << >> /\ last.solver[1].kind = "none")
        => /\ Returned
           /\ last.result.value.status = "failed"
           /\ last.result.value.errors # << >>

\* C3: an optimize call with an empty vehicle list (and an optimization
\* type the code accepts), whatever the jobs are, raises ValueError "At least one vehicle must be provided" and makes no
\* provider call.
C3_NoVehiclesRejected ==
    (Optimize /\ ValidType(last.call) /\ last.call.vehicles = << >>)
        => /\ last.gh = << >>
           /\ Raised
           /\ last.result.error = Exc("ValueError", "At least one vehicle must be provided")

\* C4: an optimize call with vehicles and an empty job list returns a
\* successful result with no routes and zero totals, without contacting the
\* provider or the solver.
C4_NoJobsIsEmptySuccess ==
    (Optimize /\ ValidType(last.call) /\ PreValid(last.call) /\ last.call.jobs = << >>)
        => /\ last.gh = << >> /\ last.solver = << >>
           /\ Returned
           /\ last.result.value.routes = << >>
           /\ last.result.value.total_distance = 0
           /\ last.result.value.total_duration = 0

\* C5: when the provider fails, the optimize call returns (does not raise) a
\* FAILED result whose error list carries the provider's message, having
\* made that one provider call only.
C5_ProviderFailureReturnsFailed ==
    (Optimize /\ last.reply # << >> /\ ~last.reply[1].ok)
        => /\ Len(last.gh) = 1
           /\ Returned
           /\ last.result.value.status = "failed"
           /\ \E i \in DOMAIN last.result.value.errors :
                  Contains(last.result.value.errors[i], last.reply[1].error.msg)

\* C6: once pre-validation has passed (here with at least one job), no
\* exception leaves the optimize call: whatever fails in the matrix fetch or
\* the solver, the call returns.
C6_NoExceptionAfterValidation ==
    (Optimize /\ ValidType(last.call) /\ PreValid(last.call) /\ last.call.jobs # << >> /\ Ended)
        => Returned

\* The first item pre-validation rejects, vehicles before jobs; indices count
\* from 0 as in the source.
Offending(a) ==
    {<<"Vehicle", i - 1>> : i \in {k \in DOMAIN a.vehicles : ~HasStart(a.vehicles[k])}}
    \cup {<<"Job", i - 1>> : i \in {k \in DOMAIN a.jobs :
                                        ~HasLocation(a.jobs[k]) \/ a.jobs[k].duration <= 0}}

FirstOffending(a) ==
    CHOOSE o \in Offending(a) :
        \A q \in Offending(a) :
            \/ o[1] = "Vehicle" /\ q[1] = "Job"
            \/ o[1] = q[1] /\ o[2] <= q[2]

\* C7: a vehicle without a start location, a job without a location or a
\* job with a non-positive duration is rejected with a validation error
\* that names the index of the offending item, before any matrix is fetched.
C7_OffendingItemRejectedByIndex ==
    (Optimize /\ ValidType(last.call) /\ last.call.vehicles # << >> /\ Offending(last.call) # {})
        => /\ last.gh = << >>
           /\ Raised
           /\ last.result.error.type = "ValueError"
           /\ Contains(last.result.error.msg,
                       FirstOffending(last.call)[1] \o " at index "
                           \o ToString(FirstOffending(last.call)[2]))

(***************************************************************************)
(* The matrix cache.                                                       *)
(***************************************************************************)
DirectRequest(l) == l.call.op = "_get_matrices"

\* The step starts a call (the call `last'` describes).
Starts == started' = started + 1

\* The step contacts the provider: the started call is left suspended in its
\* one request.
ContactsProvider == last'.result.kind = "none" /\ Len(last'.gh) = 1

\* The location list an optimize call asks the matrix for: the used
\* vehicles' start locations, then the jobs' locations.
StartLocations(a) ==
    IF a.vehicles = << >> THEN <<a.jobs[1].location>>
    ELSE [i \in DOMAIN a.vehicles |-> a.vehicles[i].start_location]

RequestedLocations(a) ==
    IF a.op = "_get_matrices" THEN a.locations
    ELSE StartLocations(a) \o [i \in DOMAIN a.jobs |-> a.jobs[i].location]

\* C8: a matrix request made without force-refresh for a (locations,
\* profile) whose matrices an earlier request fetched is a hit: hits grow by
\* one, misses stay, the provider is not contacted, the cache is untouched
\* and the caller receives the stored pair; when it repeats the request
\* that just succeeded, that is the very pair the first request returned.
\* (No entry is evicted within MaxRequests requests.)
C8_RepeatedRequestIsHit ==
    [][ ( /\ Starts /\ DirectRequest(last') /\ ~last'.call.force_refresh
          /\ [locations |-> last'.call.locations, profile |-> last'.call.profile] \in fetched )
        => ( /\ cache_hits' = cache_hits + 1
             /\ cache_misses' = cache_misses
             /\ last'.gh = << >> /\ gh' = gh
             /\ matrix_cache' = matrix_cache
             /\ last'.result.kind = "return"
             /\ last'.result.value
                    = CacheGet(matrix_cache,
                               _get_cache_key(last'.call.locations, last'.call.profile))
             /\ ( /\ DirectRequest(last) /\ last.result.kind = "return"
                  /\ last.call.locations = last'.call.locations
                  /\ last.call.profile = last'.call.profile )
                => last'.result = last.result ) ]_vars

\* A repeated request was answered from the cache after the first was
\* fetched.
C8_Witness ==
    /\ DirectRequest(last) /\ ~last.call.force_refresh
    /\ last.result.kind = "return" /\ last.gh = << >>
    /\ cache_hits = 1 /\ cache_misses = 1 /\ started = 2
    /\ [locations |-> last.call.locations, profile |-> last.call.profile] \in fetched

\* C9: on a miss the provider is called exactly once, with the complete
\* ordered location list and the profile, the miss counter grows by one and
\* the hit counter stays; when the provider answers, the pair built from
\* the response is stored under the request's key and a direct caller
\* receives exactly the stored pair.  No call makes more than one provider
\* request.
C9_MissFetchesOnceAndStores ==
    [][ /\ Len(last'.gh) <= 1
        /\ (cache_misses' # cache_misses)
             => /\ cache_misses' = cache_misses + 1
                /\ cache_hits' = cache_hits
                /\ matrix_cache' = matrix_cache
                /\ Starts /\ ContactsProvider
                /\ last'.gh[1] = [locations |-> RequestedLocations(last'.call),
                                  profile |-> last'.call.profile,
                                  out_arrays |-> <<"distances", "times">>]
        /\ (started' = started /\ last'.reply # << >> /\ last'.reply[1].ok)
             => LET key == _get_cache_key(RequestedLocations(last'.call), last'.call.profile)
                    pair == [distances |-> DictGet(last'.reply[1].response, "distances"),
                             times |-> DictGet(last'.reply[1].response, "times")]
                IN /\ Len(last'.gh) = 1
                   /\ cache_hits' = cache_hits /\ cache_misses' = cache_misses
                   /\ key \in CacheKeys(matrix_cache')
                   /\ CacheGet(matrix_cache', key) = pair
                   /\ DirectRequest(last')
                        => last'.result = [kind |-> "return", value |-> pair]
      ]_vars

\* Both kinds of call have fetched on a miss and stored the pair.
C9_Witness ==
    /\ last.reply # << >> /\ last.reply[1].ok
    /\ Optimize /\ Len(last.gh) = 1
    /\ cache_misses = 2 /\ Len(matrix_cache) = 2
    /\ \E r \in fetched : r.locations \in LocationLists

\* Numeric rounding of a coordinate to 6 decimal places (units of 1e-6
\* degree).
Rounded(x) == IF x < 0 THEN 0 - Round6(0 - x) ELSE Round6(x)
RoundedList(locations) ==
    [i \in DOMAIN locations |-> <<Rounded(locations[i][1]), Rounded(locations[i][2])>>]

\* The started request is a miss: the provider is contacted, misses grow by
\* one and hits stay.
IsMiss ==
    /\ ContactsProvider
    /\ cache_misses' = cache_misses + 1
    /\ cache_hits' = cache_hits

KeyOrder(cache) == [i \in DOMAIN cache |-> cache[i].key]

\* The key and the pair a reply step stores.
StoredKey == _get_cache_key(RequestedLocations(last'.call), last'.call.profile)
StoredEntry ==
    [key |-> StoredKey,
     value |-> [distances |-> DictGet(last'.reply[1].response, "distances"),
                times |-> DictGet(last'.reply[1].response, "times")]]

\* C11: the cache never holds more than MAX_CACHE_ENTRIES entries.  Only a
\* step that stores a fetched pair changes it: storing under a key already
\* present (a force-refresh, or a second miss) replaces the value and leaves
\* the insertion order as it was; storing a new key appends it, and when
\* that pushes the cache over the limit exactly one entry goes, the first
\* of the insertion order, never the one just stored.  A hit changes
\* nothing, so it does not make an entry newer.
C11_EvictsEarliestInserted ==
    [][ /\ Len(matrix_cache') <= MAX_CACHE_ENTRIES
        /\ (matrix_cache' # matrix_cache)
             => /\ started' = started /\ last'.reply # << >> /\ last'.reply[1].ok
                /\ IF StoredKey \in CacheKeys(matrix_cache)
                   THEN /\ KeyOrder(matrix_cache') = KeyOrder(matrix_cache)
                        /\ \A i \in DOMAIN matrix_cache :
                              matrix_cache'[i] = IF matrix_cache[i].key = StoredKey
                                                 THEN StoredEntry ELSE matrix_cache[i]
                   ELSE IF Len(matrix_cache) < MAX_CACHE_ENTRIES
                   THEN matrix_cache' = Append(matrix_cache, StoredEntry)
                   ELSE matrix_cache' = Append(Tail(matrix_cache), StoredEntry)
      ]_vars

\* The entry for <<P0, P2>>, the earliest inserted, has been evicted from a full
\* cache by the store of a new key, although it was hit or overwritten by a
\* force-refresh just before.
C11_Witness ==
    /\ Len(matrix_cache) = MAX_CACHE_ENTRIES
    /\ _get_cache_key(<<P0, P2>>, DEFAULT_PROFILE) \notin CacheKeys(matrix_cache)
    /\ matrix_cache[MAX_CACHE_ENTRIES].key = _get_cache_key(<<P2>>, DEFAULT_PROFILE)
    /\ cache_misses = MAX_CACHE_ENTRIES + 1
    /\ started = 2

(***************************************************************************)
(* Force-refresh.                                                          *)
(***************************************************************************)
SameRequest(a, b) == a.locations = b.locations /\ a.profile = b.profile

\* C12: a force-refresh request always contacts the provider, also when its
\* key is cached (a miss is counted, no hit); when the provider answers,
\* the fresh pair replaces the entry stored under the key, without adding an
\* entry; and a request for the same key made without force-refresh after
\* it is a hit that returns the fresh pair.
C12_ForceRefreshBypassesReadAndWrites ==
    [][ /\ (Starts /\ DirectRequest(last') /\ last'.call.force_refresh)
             => (IsMiss /\ matrix_cache' = matrix_cache)
        /\ ( /\ started' = started /\ DirectRequest(last') /\ last'.call.force_refresh
             /\ last'.reply # << >> /\ last'.reply[1].ok )
             => /\ StoredKey \in CacheKeys(matrix_cache')
                /\ CacheGet(matrix_cache', StoredKey) = StoredEntry.value
                /\ last'.result = [kind |-> "return", value |-> StoredEntry.value]
                /\ StoredKey \in CacheKeys(matrix_cache)
                      => KeyOrder(matrix_cache') = KeyOrder(matrix_cache)
        /\ ( /\ Starts /\ DirectRequest(last') /\ ~last'.call.force_refresh
             /\ DirectRequest(last) /\ last.call.force_refresh /\ last.result.kind = "return"
             /\ SameRequest(last'.call, last.call) )
             => /\ cache_hits' = cache_hits + 1 /\ cache_misses' = cache_misses
                /\ last'.gh = << >> /\ gh' = gh
                /\ last'.result = last.result
                /\ last'.result.value = FormatMatrices(last.reply[1].response)
      ]_vars

\* The entry for <<P0, P2>> was replaced by a force-refresh with a pair that
\* differs from the old one, and the request after it was a hit returning
\* the fresh pair.
C12_Witness ==
    /\ DirectRequest(last) /\ ~last.call.force_refresh /\ last.call.locations = <<P0, P2>>
    /\ last.result.kind = "return" /\ last.gh = << >>
    /\ last.result.value = FormatMatrices(FullResponse(2, 2))
    /\ last.result.value # PrefilledCache(1)[1].value
    /\ matrix_cache[1].value = last.result.value
    /\ cache_hits = 1 /\ started = 2

(***************************************************************************)
(* Concurrent calls on one optimizer.                                      *)
(***************************************************************************)
OptimizeCall(l) == l.call.op = "optimize_routes"

\* A complete (distances, times) pair the provider can return for n
\* locations.
CompletePairs(n) ==
    {[distances |-> Matrix(n, 1000 * w), times |-> Matrix(n, 60 * w)] : w \in Weights}

\* Another call is suspended in a fetch of the request r.
InFlight(r) == \E d \in Calls : pc[d] = "awaiting" /\ gh[d] = <<r>>

\* C13: concurrent optimize calls on one optimizer leave the cache sound.
\* A call that misses on a key while a fetch of the same key is in flight
\* fetches independently; each answered fetch writes its own pair under the
\* key, over the entry if there is one (last write wins, the number of
\* entries stays); at every moment the cache holds at most one entry per
\* key and every entry is a complete (distances, times) pair that the
\* provider can return for a request with that key.
C13_ConcurrentMissesConverge ==
    [][ /\ \A i, j \in DOMAIN matrix_cache' :
              matrix_cache'[i].key = matrix_cache'[j].key => i = j
        /\ \A i \in DOMAIN matrix_cache' :
              \E r \in fetched' :
                 /\ _get_cache_key(r.locations, r.profile) = matrix_cache'[i].key
                 /\ matrix_cache'[i].value \in CompletePairs(Len(r.locations))
        /\ ( /\ Starts /\ OptimizeCall(last') /\ last'.gh # << >>
             /\ InFlight(last'.gh[1]) )
             => /\ IsMiss
                /\ Cardinality({d \in Calls : pc'[d] = "awaiting" /\ gh'[d] = last'.gh}) >= 2
        /\ ( /\ started' = started /\ OptimizeCall(last')
             /\ last'.reply # << >> /\ last'.reply[1].ok )
             => /\ CacheGet(matrix_cache', StoredKey) = StoredEntry.value
                /\ StoredKey \in CacheKeys(matrix_cache)
                      => Len(matrix_cache') = Len(matrix_cache)
      ]_vars

\* Two optimize calls missed on the same key, the second while the fetch of
\* the first was in flight; one fetch has been answered and stored, the
\* other call is still suspended and will overwrite the entry.
C13_Witness ==
    /\ started = 2 /\ cache_misses = 2 /\ cache_hits = 0
    /\ Len(matrix_cache) = 1
    /\ \E c \in Calls :
          /\ pc[c] = "awaiting" /\ call[c].op = "optimize_routes"
          /\ _get_cache_key(gh[c][1].locations, gh[c][1].profile) = matrix_cache[1].key

Solving == \E c \in Calls : pc[c] = "solving"

\* C14: the solving step of one optimize call does not block the others:
\* while a call is solving, a call whose provider request has been answered
\* can resume and, when a coroutine is idle, a new call can start.
C14_SolvingDoesNotBlock ==
    Solving =>
        /\ (\E d \in Calls : pc[d] = "awaiting") => ENABLED (OptimizeReply \/ MatrixReply)
        /\ (started < MaxRequests /\ \E d \in Calls : pc[d] = "idle")
              => ENABLED (OptimizeRequest \/ MatrixRequest)

\* C15: every optimize call that passed pre-validation and waits for the
\* provider eventually returns with one terminal status; when the provider
\* does not answer, the request is cut off by the timeout and the call
\* returns FAILED.
C15_EveryCallReturnsTerminal ==
    \A c \in Calls :
        (pc[c] = "awaiting" /\ call[c].op = "optimize_routes" /\ PreValid(call[c]))
            ~> ( /\ pc[c] = "idle" /\ Optimize /\ Returned
                 /\ last.result.value.status \in {"completed", "failed"} )

(***************************************************************************)
(* Schedules.                                                              *)
(***************************************************************************)
\* The dates d with start_date <= d <= end_date and weekday(d) in
\* working_days, in ascending order.
RECURSIVE Ascending(_)
Ascending(S) ==
    IF S = {} THEN << >>
    ELSE LET m == CHOOSE x \in S : \A y \in S : x <= y
         IN <<m>> \o Ascending(S \ {m})

HorizonDates(h) ==
    Ascending({d \in h.start_date..h.end_date : (d + 6) % 7 \in h.working_days})

\* C16: the schedule generator returns, for every input vehicle id, one
\* schedule per date of the horizon whose weekday is a working day, in
\* ascending date order; without a horizon exactly one schedule, for the
\* current date with the default working hours (09:00 to 17:00); every
\* schedule starts with no assigned jobs.
C16_SchedulesCoverWorkingDates ==
    (last.call.op = "_generate_vehicle_schedules")
        => /\ Returned
           /\ DOMAIN last.result.value
                 = {last.call.vehicles[i].id : i \in DOMAIN last.call.vehicles}
           /\ \A id \in DOMAIN last.result.value :
                 LET list == last.result.value[id]
                     h == last.call.planning_horizon
                 IN /\ \A i \in DOMAIN list : list[i].assigned_jobs = << >>
                    /\ IF h = NoHorizon
                       THEN /\ Len(list) = 1
                            /\ list[1].date = last.call.today
                            /\ list[1].start_time = Time(9, 0)
                            /\ list[1].end_time = Time(17, 0)
                       ELSE [i \in DOMAIN list |-> list[i].date] = HorizonDates(h)

(***************************************************************************)
(* The routing model and the routes.                                       *)
(***************************************************************************)
\* The latest step ended an optimize call that ran the solver.
Solved == Optimize /\ Ended /\ last.solver # << >>

\* The matrices the call of the latest step got from _get_matrices: the
\* cache entry of its locations (stored or found before the solve, which
\* no other call interleaves).
UsedMatrices ==
    LET p == OptimizePrepare(last.call.jobs, last.call.optimization_type, last.call.vehicles)
    IN CacheGet(matrix_cache, _get_cache_key(p.locations, last.call.profile))

\* C17: when an optimize call that was given a planning horizon returns its
\* result, every route carries a date inside the horizon whose weekday is a
\* working day.
C17_RoutesCarryHorizonDates ==
    (Optimize /\ Returned /\ last.call.kwargs.planning_horizon # NoHorizon)
        => \A i \in DOMAIN last.result.value.routes :
              LET route == last.result.value.routes[i]
                  h == last.call.kwargs.planning_horizon
              IN /\ "date" \in DOMAIN route
                 /\ route.date \in h.start_date..h.end_date
                 /\ (route.date + 6) % 7 \in h.working_days

C19_VehiclesStartAtOwnNode ==
    Solved =>
        \A v \in 1..last.solver[1].model.num_vehicles :
            /\ last.solver[1].model.starts[v] = v - 1
            /\ last.solver[1].model.ends[v] = v - 1

\* C20: in every returned result the grand total distance is the sum of the
\* routes' distances and the grand total duration the sum of the routes'
\* durations, for any number of vehicles, empty routes included.
C20_TotalsAreSumsOfRoutes ==
    (Optimize /\ Returned)
        => /\ last.result.value.total_distance
                = SumOver(last.result.value.routes, "total_distance")
           /\ last.result.value.total_duration
                = SumOver(last.result.value.routes, "total_duration")

C20_Witness ==
    /\ Optimize /\ Returned
    /\ Len(last.result.value.routes) = 2
    /\ last.result.value.routes[1].total_distance > 0
    /\ last.result.value.routes[2].stops = << >>
    /\ last.result.value.routes[2].total_distance = 0
    /\ last.result.value.total_distance = last.result.value.routes[1].total_distance

(***************************************************************************)
(* Routes and stops of a returned result.                                  *)
(***************************************************************************)
\* The vehicles the call of the latest step ran with (the default vehicle
\* when none was given).
UsedVehicles ==
    OptimizePrepare(last.call.jobs, last.call.optimization_type, last.call.vehicles).vehicles

ResultRoutes == last.result.value.routes

\* The stops of all routes, as (route, position) pairs.
StopPlaces ==
    UNION {{<<v, i>> : i \in DOMAIN ResultRoutes[v].stops} : v \in DOMAIN ResultRoutes}

\* The node sequence the solver gave vehicle v, depot to depot.
SolvedPath(v) ==
    <<last.solver[1].model.starts[v]>> \o last.solver[1].routes[v]
        \o <<last.solver[1].model.ends[v]>>

\* The positions of SolvedPath(v) that hold the node of a job, in order.
RECURSIVE JobPositions(_, _)
JobPositions(v, k) ==
    IF k = 0 THEN << >>
    ELSE IF k > 1 /\ k < Len(SolvedPath(v)) /\ SolvedPath(v)[k] >= Len(UsedVehicles)
    THEN Append(JobPositions(v, k - 1), k)
    ELSE JobPositions(v, k - 1)

\* The job whose location is node `node` of the location list.
JobAtNode(node) == last.call.jobs[node - Len(UsedVehicles) + 1]

\* C21: in every returned result each route's total distance (duration) is
\* the sum of the distance_from_prev (duration_from_prev) values of the
\* route's stops: no travelled edge is in the total without being in a stop.
C21_RouteTotalsAreSumsOfStops ==
    (Optimize /\ Returned)
        => \A v \in DOMAIN ResultRoutes :
              /\ ResultRoutes[v].total_distance
                    = SumOver(ResultRoutes[v].stops, "distance_from_prev")
              /\ ResultRoutes[v].total_duration
                    = SumOver(ResultRoutes[v].stops, "duration_from_prev")

\* C22: for a non-empty job list and a non-empty vehicle list, every input
\* job id is in at most one stop over all routes of the result.
C22_NoJobInTwoStops ==
    (Optimize /\ Returned /\ last.call.jobs # << >> /\ last.call.vehicles # << >>)
        => \A j \in DOMAIN last.call.jobs :
              Cardinality({pl \in StopPlaces :
                             ResultRoutes[pl[1]].stops[pl[2]].job_id = last.call.jobs[j].id}) <= 1

C22_Witness ==
    /\ Optimize /\ Returned
    /\ Len(last.call.jobs) = 2 /\ Len(last.call.vehicles) = 2
    /\ Len(ResultRoutes[1].stops) = 1 /\ Len(ResultRoutes[2].stops) = 1
    /\ ResultRoutes[1].stops[1].job_id # ResultRoutes[2].stops[1].job_id

C26_LocationListHasNoDuplicates ==
    (Optimize /\ PreValid(last.call) /\ ValidType(last.call) /\ last.call.jobs # << >>)
        => Distinct(OptimizePrepare(last.call.jobs, last.call.optimization_type,
                                    last.call.vehicles).locations)

\* C27: in the model handed to the solver the time range of the node of job
\* j is j's own window in seconds, for every job that has a window, and a
\* job without window is left unconstrained (no range, or 0 to 86400).
C27_JobNodeGetsOwnWindow ==
    Solved =>
        \A j \in DOMAIN last.call.jobs :
            LET node == Len(UsedVehicles) + j - 1
                ranges == last.solver[1].model.time_ranges
                job == last.call.jobs[j]
            IN IF job.time_window = NoWindow
               THEN node \in DOMAIN ranges => ranges[node] = <<0, 86400>>
               ELSE /\ node \in DOMAIN ranges
                    /\ ranges[node] = <<time_to_seconds(job.time_window[1]),
                                        time_to_seconds(job.time_window[2])>>

\* C28: the stops of a route are the job nodes of the solver's visit
\* sequence, in order, each under the id of the job whose location is that
\* node; depot nodes (the vehicles' start nodes) give no stop.
C28_StopsAreVisitedJobNodes ==
    (Optimize /\ Returned)
        => \A v \in DOMAIN ResultRoutes :
              LET at == JobPositions(v, Len(SolvedPath(v)))
              IN [i \in DOMAIN ResultRoutes[v].stops |-> ResultRoutes[v].stops[i].job_id]
                    = [i \in DOMAIN at |-> JobAtNode(SolvedPath(v)[at[i]]).id]

C28_Witness ==
    /\ Optimize /\ Returned
    /\ Len(last.call.vehicles) = 2 /\ Len(last.call.jobs) = 2
    /\ last.solver[1].routes[1] = <<3, 1, 2>>
    /\ Len(ResultRoutes[1].stops) = 2
    /\ ResultRoutes[1].stops[1].job_id = last.call.jobs[2].id
    /\ ResultRoutes[1].stops[2].job_id = last.call.jobs[1].id

\* C30: a stop's arrival_time is the sum of the duration-matrix entries of
\* the edges from the route's start node up to the stop (the edge that
\* leaves the stop is not in it), its departure_time is the arrival_time
\* plus the job's duration, and arrival times do not decrease along a route.
C30_ArrivalIsTravelUpToStop ==
    (Optimize /\ Returned)
        => \A v \in DOMAIN ResultRoutes :
              LET at == JobPositions(v, Len(SolvedPath(v)))
                  stops == ResultRoutes[v].stops
              IN \A i \in DOMAIN stops :
                    /\ i \in DOMAIN at
                    /\ stops[i].arrival_time
                          = PathSum(UsedMatrices.times, SolvedPath(v), at[i] - 1)
                    /\ stops[i].departure_time
                          = stops[i].arrival_time + JobAtNode(SolvedPath(v)[at[i]]).duration
                    /\ i > 1 => stops[i - 1].arrival_time <= stops[i].arrival_time

(***************************************************************************)
(* Cache keys.                                                             *)
(***************************************************************************)
\* The started request is a hit: it returns at once and hits grow by one.
IsHit ==
    /\ last'.result.kind = "return"
    /\ cache_hits' = cache_hits + 1
    /\ cache_misses' = cache_misses

\* C24: a matrix request uses the entry of an earlier, stored request (it is
\* a hit) exactly when the two have the same profile and location lists of
\* equal length whose coordinates agree, position by position, after
\* rounding to 6 decimal places.
C24_SameEntryIffSameRoundedRequest ==
    [][ (Starts /\ DirectRequest(last') /\ ~last'.call.force_refresh)
            => ( IsHit <=> \E r \in fetched :
                              /\ r.profile = last'.call.profile
                              /\ RoundedList(r.locations) = RoundedList(last'.call.locations) )
      ]_vars

(***************************************************************************)
(* Failed fetches.                                                         *)
(***************************************************************************)
\* The fetch the reply ends has failed: the provider raised, or what it
\* returned lacks the distance or the time matrix.
FetchFailed(reply) ==
    \/ ~reply.ok
    \/ "distances" \notin DOMAIN reply.response
    \/ "times" \notin DOMAIN reply.response

\* C25: a matrix fetch that fails never changes the cache entries: the step
\* that ends it stores nothing and removes or overwrites nothing, and a
\* request for the same key made right after it, with no stored fetch of
\* that key, is a miss that contacts the provider again.
C25_FailedFetchLeavesCache ==
    [][ /\ ( /\ started' = started /\ last'.reply # << >>
             /\ FetchFailed(last'.reply[1]) )
             => (matrix_cache' = matrix_cache /\ Raised')
        /\ ( /\ Starts /\ DirectRequest(last') /\ DirectRequest(last) /\ Raised
             /\ SameRequest(last.call, last'.call)
             /\ \A r \in fetched :
                   _get_cache_key(r.locations, r.profile)
                      # _get_cache_key(last'.call.locations, last'.call.profile) )
             => IsMiss
      ]_vars

\* A fetch has just failed on a body that lacks an array, while the entry
\* of another request was cached: that entry is still the only one.
C25_Witness ==
    /\ DirectRequest(last) /\ Raised
    /\ last.reply # << >> /\ ~last.reply[1].ok
    /\ Contains(last.reply[1].error.msg, "Unexpected response format")
    /\ Len(matrix_cache) = 1
    /\ matrix_cache[1].key # _get_cache_key(last.call.locations, last.call.profile)
    /\ cache_misses = 2

(***************************************************************************)
(* The symbol table.                                                       *)
(***************************************************************************)
Prepared == last.call.op = "_prepare_optimization_data" /\ Returned

\* The node indices the table gives vehicle v: its start and its end node
\* (the start node when there is no '<id>_end' key), as lines 577-582 look
\* them up.
VehicleNodes(data, v) ==
    { data.location_to_idx[v.id \o "_start"],
      IF v.id \o "_end" \in DOMAIN data.location_to_idx
      THEN data.location_to_idx[v.id \o "_end"]
      ELSE data.location_to_idx[v.id \o "_start"] }

\* C29: for vehicles and jobs with pairwise unique ids the symbol table keeps
\* the entities apart: a job's node index is no vehicle's start or end node
\* index, the location stored at a job's index is the job's own location,
\* and there are as many nodes as keys, whatever the id strings are.
C29_SymbolTableKeepsEntitiesApart ==
    Prepared =>
        LET data == last.result.value
        IN /\ \A j \in DOMAIN data.jobs :
                 /\ \A v \in DOMAIN data.vehicles :
                       data.job_indices[data.jobs[j].id] \notin VehicleNodes(data, data.vehicles[v])
                 /\ data.locations[data.job_indices[data.jobs[j].id] + 1] = data.jobs[j].location
           /\ Len(data.locations) = Cardinality(DOMAIN data.location_to_idx)

====
